---------------------------- MODULE Spec2Model ----------------------------
(***************************************************************************)
(* Newton's method with finite-difference derivatives:                     *)
(*   src/newton.py       the hardened variant (argument validation, a      *)
(*                       guard on the second derivative, a large-step      *)
(*                       warning) and the multivariate solver,             *)
(*   src/newton-save.py  the plain variant of the univariate solver,       *)
(*   src/unnamed/part_000  the demonstration call (day2 python.py).        *)
(*                                                                         *)
(* Python floats are modelled as exact reals.  The program's constants     *)
(* span 1e-8 .. 1e6, and one evaluation of the demonstration function at   *)
(* 1.00001 already needs eleven significant digits, more than a 32-bit     *)
(* integer holds.  A real number is therefore written in base 1e5 with     *)
(* rational digits: a Number is a finite set of terms <<k, n, d>>, one per *)
(* exponent k, standing for the sum of (n/d) * Base^k.  Addition,          *)
(* subtraction and multiplication are exact; division is exact and is      *)
(* defined for a divisor of one term (every divisor met below is 1e-5,     *)
(* 1e-8, or twice the leading coefficient of a quadratic).  The calls the  *)
(* model makes are calls on which rounding does not change the path the    *)
(* code takes (see RoundingFree).                                          *)
(***************************************************************************)
EXTENDS Integers, Sequences, FiniteSets, TLC

\* 1e-5 = 1/Base, the default finite-difference step.
Base == 100000

(***************************************************************************)
(* Exact arithmetic                                                        *)
(***************************************************************************)
RECURSIVE GCD(_, _)
GCD(a, b) == IF b = 0 THEN a ELSE GCD(b, a % b)

IAbs(n) == IF n < 0 THEN -n ELSE n

\* the rational n/d in lowest terms with a positive denominator (d # 0)
RNorm(n, d) ==
    LET g == GCD(IAbs(n), IAbs(d))
        s == IF d < 0 THEN -1 ELSE 1
    IN  <<(s * n) \div g, (s * d) \div g>>

RAdd(p, q) == RNorm(p[1] * q[2] + q[1] * p[2], p[2] * q[2])
RMul(p, q) == RNorm(p[1] * q[1], p[2] * q[2])

Exps(a) == {t[1] : t \in a}

\* the digit of a at exponent k
Coef(a, k) ==
    IF k \in Exps(a)
    THEN LET t == CHOOSE t \in a : t[1] = k IN <<t[2], t[3]>>
    ELSE <<0, 1>>

Term(k, c) == <<k, c[1], c[2]>>

Zero == {}
Num(n, d, k) == IF n = 0 THEN Zero ELSE {Term(k, RNorm(n, d))}

Add(a, b) ==
    {Term(k, RAdd(Coef(a, k), Coef(b, k))) :
        k \in {j \in Exps(a) \cup Exps(b) : RAdd(Coef(a, j), Coef(b, j))[1] # 0}}

Neg(a) == {<<t[1], -t[2], t[3]>> : t \in a}

Sub(a, b) == Add(a, Neg(b))

\* a times the single term t
MulTerm(a, t) == {Term(u[1] + t[1], RMul(<<u[2], u[3]>>, <<t[2], t[3]>>)) : u \in a}

RECURSIVE Mul(_, _)
Mul(a, b) ==
    IF b = {} THEN Zero
    ELSE LET t == CHOOSE t \in b : TRUE
         IN  Add(MulTerm(a, t), Mul(a, b \ {t}))

\* a / b for a divisor b of exactly one term; b = Zero is the caller's
\* ZeroDivisionError and never reaches here
Div(a, b) ==
    LET t == CHOOSE t \in b : Cardinality(b) = 1
    IN  {Term(u[1] - t[1], RNorm(u[2] * t[3], u[3] * t[2])) : u \in a}

\* -1, 0 or 1: the sign of the digit at the highest exponent.  It is the sign
\* of the number whenever every digit n/d has |n| * d' < Base - 1 for the
\* denominator d' of the leading digit (see Proper).
Sign(a) ==
    IF a = {} THEN 0
    ELSE LET t == CHOOSE t \in a : \A u \in a : u[1] <= t[1]
         IN  IF t[2] < 0 THEN -1 ELSE 1

Lt(a, b) == Sign(Sub(a, b)) < 0
Gt(a, b) == Sign(Sub(a, b)) > 0
Abs(a) == IF Sign(a) < 0 THEN Neg(a) ELSE a

\* the digits of a are small enough for Sign(a) to be the sign of a
Proper(a) == \A t \in a : \A u \in a : IAbs(t[2]) * u[3] < Base - 1

(***************************************************************************)
(* Program constants and the inputs the model draws from                   *)
(***************************************************************************)
\* eps=1e-5, the default step of both finite-difference estimators
DefaultEps == Num(1, 1, -1)
\* tol=1e-6, the default tolerance of newton_method
DefaultTol == Num(1, 10, -1)
\* 1e6, the step magnitude above which the hardened variant warns
LargeStep == Num(10, 1, 1)

\* epsilon=1e-8, the step multivariate_newton passes to approx_fprime
GradientStep == Num(100, 1, -2)
\* abs_step=1e-5, the step multivariate_newton passes to approx_derivative
HessianStep == Num(1, 1, -1)

\* the largest iteration budget the model passes to a solver
MaxIterations == 3

\* Python's "not bound yet" / None, and a bound value
None == <<>>
Some(v) == <<v>>

\* A callable objective is a polynomial a3 x^3 + a2 x^2 + a1 x + a0.
Poly(a3, a2, a1, a0) == [callable |-> TRUE, a3 |-> a3, a2 |-> a2, a1 |-> a1, a0 |-> a0]

\* def f(x): return x**2 - 2
DemoF == Poly(Zero, Num(1, 1, 0), Zero, Num(-2, 1, 0))
\* x**2 - 1/4, whose roots are +-1/2
QuarterF == Poly(Zero, Num(1, 1, 0), Zero, Num(-1, 4, 0))
\* the constant 5: both derivative estimates are exactly zero
ConstF == Poly(Zero, Zero, Zero, Num(5, 1, 0))
\* x + 1e-9 x**2: a Newton step of about 5e8 from x = 0
FlatF == Poly(Zero, Num(10, 1, -2), Num(1, 1, 0), Zero)
\* x**3
CubeF == Poly(Num(1, 1, 0), Zero, Zero, Zero)
\* x**3 - 2x
CubeLinearF == Poly(Num(1, 1, 0), Zero, Num(-2, 1, 0), Zero)
\* an argument that is not callable (a string, say)
NotCallable == [callable |-> FALSE, a3 |-> Zero, a2 |-> Zero, a1 |-> Zero, a0 |-> Zero]

SquareMinusC == {DemoF, QuarterF}
Objectives == {DemoF, QuarterF, ConstF, FlatF, NotCallable}

\* f(x) for a callable f
Apply(f, x) == Add(Mul(Add(Mul(Add(Mul(f.a3, x), f.a2), x), f.a1), x), f.a0)

\* Python values passed as x0: the class of the value and, for a number, the
\* real it denotes (True is 1)
PyVal(type, val) == [type |-> type, val |-> val]
InitialGuesses ==
    { PyVal("float", Num(1, 1, 0)), PyVal("int", Zero), PyVal("bool", Num(1, 1, 0)),
      PyVal("str", Zero), PyVal("NoneType", Zero) }

\* the classes a value of class c is an instance of (bool subclasses int)
Classes(c) == IF c = "bool" THEN {"bool", "int"} ELSE {c}
isinstance(v, classes) == Classes(v.type) \cap classes # {}
\* the values x + eps, f(x) arithmetic accepts
Arithmetic(v) == v.type \in {"int", "float", "bool"}

Tolerances == {Zero, DefaultTol, Num(2, 1, 0)}

\* The calls whose path is the same in double precision and in exact
\* arithmetic.  The second difference of x + 1e-9 x**2 (2e-9) is below the
\* rounding noise of the estimator (about 1e-6 |f(x)|) unless f(x) is about 0,
\* and the iterate it produces (-5e8) is too large for a second iteration.
RoundingFree(g, guess, budget) ==
    g = FlatF => (guess = PyVal("int", Zero) /\ budget <= 1)

(***************************************************************************)
(* The finite-difference estimators (the same text in both files)          *)
(***************************************************************************)
\* return (f(x + eps) - f(x)) / (eps)
finite_difference_first(f, x, eps) ==
    Div(Sub(Apply(f, Add(x, eps)), Apply(f, x)), eps)

\* return (finite_difference_first(f, x + eps) - finite_difference_first(f, x)) / (eps)
\* : the two inner calls pass no eps and so use the default step
finite_difference_second(f, x, eps) ==
    Div(Sub(finite_difference_first(f, Add(x, eps), DefaultEps),
            finite_difference_first(f, x, DefaultEps)), eps)

(***************************************************************************)
(* State                                                                   *)
(***************************************************************************)
VARIABLES
    variant,            \* "newton" (newton.py) or "newton_save" (newton-save.py)
    f, x0, tol, iteration,          \* the arguments of newton_method
    pc,                 \* where the call is; a terminal pc names how it ended
    i, x, x_t, first_derivatives, second_derivatives,   \* its locals
    evals,              \* iterations that called the two estimators
    warned,             \* calls of warnings.warn
    printed,            \* "stop iteration" was printed
    ret,                \* the value returned
    fd,                 \* one call of a finite-difference estimator
    mv                  \* one call of multivariate_newton

vars == <<variant, f, x0, tol, iteration, pc, i, x, x_t, first_derivatives,
          second_derivatives, evals, warned, printed, ret, fd, mv>>

args == <<variant, f, x0, tol, iteration>>

Idle == [pc |-> "idle"]

Raised == {"TypeError", "AssertionError", "ZeroDivisionError", "UnboundLocalError"}
Terminal == Raised \cup {"return"}

(***************************************************************************)
(* newton_method                                                           *)
(***************************************************************************)
Init ==
    /\ variant \in {"newton", "newton_save"}
    /\ f \in Objectives
    /\ x0 \in InitialGuesses
    /\ tol \in Tolerances
    /\ iteration \in 0..MaxIterations
    /\ RoundingFree(f, x0, iteration)
    /\ pc = IF variant = "newton" THEN "validate" ELSE "assign"
    /\ i = 0
    /\ x = None
    /\ x_t = None
    /\ first_derivatives = None
    /\ second_derivatives = None
    /\ evals = 0
    /\ warned = 0
    /\ printed = FALSE
    /\ ret = None
    /\ fd = Idle
    /\ mv = Idle

\* Validate without the check of x0
ValidateOnlyCallable ==
    /\ pc = "validate"
    /\ pc' = IF ~f.callable THEN "TypeError" ELSE "assign"
    /\ UNCHANGED <<args, i, x, x_t, first_derivatives, second_derivatives,
                   evals, warned, printed, ret, fd, mv>>

\* newton.py 73-76: the two type checks of the hardened variant
Validate ==
    /\ pc = "validate"
    /\ pc' = IF ~f.callable THEN "TypeError"
             ELSE IF ~isinstance(x0, {"int", "float"}) THEN "TypeError"
             ELSE "assign"
    /\ UNCHANGED <<args, i, x, x_t, first_derivatives, second_derivatives,
                   evals, warned, printed, ret, fd, mv>>

\* x = x0
AssignX ==
    /\ pc = "assign"
    /\ x' = Some(x0)
    /\ pc' = "loop"
    /\ UNCHANGED <<args, i, x_t, first_derivatives, second_derivatives,
                   evals, warned, printed, ret, fd, mv>>

\* LoopHead running the body once more: range(iteration + 1)
LoopHeadInclusive ==
    /\ pc = "loop"
    /\ pc' = IF i <= iteration THEN "derivatives" ELSE "after"
    /\ UNCHANGED <<args, i, x, x_t, first_derivatives, second_derivatives,
                   evals, warned, printed, ret, fd, mv>>

\* for i in range(iteration):
LoopHead ==
    /\ pc = "loop"
    /\ pc' = IF i < iteration THEN "derivatives" ELSE "after"
    /\ UNCHANGED <<args, i, x, x_t, first_derivatives, second_derivatives,
                   evals, warned, printed, ret, fd, mv>>

\* first_derivatives = finite_difference_first(f, x)
\* second_derivatives = finite_difference_second(f, x)
\* x + eps raises TypeError for an x that is no number, f(...) for an f that
\* is not callable (the plain variant, which validates nothing)
Derivatives ==
    /\ pc = "derivatives"
    /\ evals' = evals + 1
    /\ IF Arithmetic(x[1]) /\ f.callable
       THEN /\ first_derivatives' = Some(finite_difference_first(f, x[1].val, DefaultEps))
            /\ second_derivatives' = Some(finite_difference_second(f, x[1].val, DefaultEps))
            /\ pc' = IF variant = "newton" THEN "guard" ELSE "update"
       ELSE /\ pc' = "TypeError"
            /\ UNCHANGED <<first_derivatives, second_derivatives>>
    /\ UNCHANGED <<args, i, x, x_t, warned, printed, ret, fd, mv>>

\* newton.py 84: assert second_derivatives == 0, "Second derivative is zero."
Guard ==
    /\ pc = "guard"
    /\ pc' = IF second_derivatives[1] = Zero THEN "update" ELSE "AssertionError"
    /\ UNCHANGED <<args, i, x, x_t, first_derivatives, second_derivatives,
                   evals, warned, printed, ret, fd, mv>>

\* x_t = x - first_derivatives / second_derivatives
\* and, in newton.py,   if abs(x_t - x) > 1e6: warnings.warn(...)
\* Python raises ZeroDivisionError for a float divided by zero.
Update ==
    /\ pc = "update"
    /\ IF second_derivatives[1] = Zero
       THEN /\ pc' = "ZeroDivisionError"
            /\ UNCHANGED <<x_t, warned>>
       ELSE LET new == Sub(x[1].val, Div(first_derivatives[1], second_derivatives[1]))
            IN  /\ x_t' = Some(PyVal("float", new))
                /\ warned' = IF variant = "newton"
                                /\ Gt(Abs(Sub(new, x[1].val)), LargeStep)
                             THEN warned + 1 ELSE warned
                /\ pc' = "converged"
    /\ UNCHANGED <<args, i, x, first_derivatives, second_derivatives,
                   evals, printed, ret, fd, mv>>

\* Converged with the test abs(x_t - x) <= tol
ConvergedOrEqual ==
    /\ pc = "converged"
    /\ IF ~Gt(Abs(Sub(x_t[1].val, x[1].val)), tol)
       THEN /\ printed' = TRUE
            /\ ret' = x_t
            /\ pc' = "return"
            /\ UNCHANGED <<i, x>>
       ELSE /\ x' = x_t
            /\ i' = i + 1
            /\ pc' = "loop"
            /\ UNCHANGED <<printed, ret>>
    /\ UNCHANGED <<args, x_t, first_derivatives, second_derivatives,
                   evals, warned, fd, mv>>

\* if abs(x_t - x) < tol: print("stop iteration"); return x_t
\* x = x_t
Converged ==
    /\ pc = "converged"
    /\ IF Lt(Abs(Sub(x_t[1].val, x[1].val)), tol)
       THEN /\ printed' = TRUE
            /\ ret' = x_t
            /\ pc' = "return"
            /\ UNCHANGED <<i, x>>
       ELSE /\ x' = x_t
            /\ i' = i + 1
            /\ pc' = "loop"
            /\ UNCHANGED <<printed, ret>>
    /\ UNCHANGED <<args, x_t, first_derivatives, second_derivatives,
                   evals, warned, fd, mv>>

\* return x_t  after the loop: x_t is unbound when the loop body never ran
AfterLoop ==
    /\ pc = "after"
    /\ IF x_t = None
       THEN pc' = "UnboundLocalError" /\ UNCHANGED ret
       ELSE pc' = "return" /\ ret' = x_t
    /\ UNCHANGED <<args, i, x, x_t, first_derivatives, second_derivatives,
                   evals, warned, printed, fd, mv>>

Next ==
    \/ Validate
    \/ AssignX
    \/ LoopHead
    \/ Derivatives
    \/ Guard
    \/ Update
    \/ Converged
    \/ AfterLoop

Spec == Init /\ [][Next]_vars

(***************************************************************************)
(* One call of a finite-difference estimator with an eps of the caller's   *)
(***************************************************************************)
SolverIdle ==
    /\ variant = "newton"
    /\ f = NotCallable
    /\ x0 = PyVal("NoneType", Zero)
    /\ tol = Zero
    /\ iteration = 0
    /\ pc = "idle"
    /\ i = 0
    /\ x = None
    /\ x_t = None
    /\ first_derivatives = None
    /\ second_derivatives = None
    /\ evals = 0
    /\ warned = 0
    /\ printed = FALSE
    /\ ret = None

solver == <<variant, f, x0, tol, iteration, pc, i, x, x_t, first_derivatives,
            second_derivatives, evals, warned, printed, ret>>

\* The objectives of the estimator calls: those whose estimates are the same,
\* up to rounding, in double precision and in exact arithmetic.  x + 1e-9 x**2
\* is not one: away from x = 0 its second difference rounds to 0.0.
FDObjectives == {DemoF, QuarterF, ConstF, CubeF, CubeLinearF}
FDPoints == {Zero, Num(1, 1, 0), Num(-1, 1, 0), Num(1, 2, 0), Num(2, 1, 0)}
\* 1e-5, 2e-5, 0.5, 1 and 0
FDSteps == {DefaultEps, Num(2, 1, -1), Num(1, 2, 0), Num(1, 1, 0), Zero}

InitFD ==
    /\ SolverIdle
    /\ mv = Idle
    /\ fd \in [pc : {"call"}, op : {"first", "second"}, f : FDObjectives,
               x : FDPoints, eps : FDSteps, out : {None}]

\* finite_difference_first(f, x, eps); a zero eps divides by zero
CallFirst ==
    /\ fd.pc = "call"
    /\ fd.op = "first"
    /\ fd' = IF fd.eps = Zero
             THEN [fd EXCEPT !.pc = "ZeroDivisionError"]
             ELSE [fd EXCEPT !.pc = "return",
                             !.out = Some(finite_difference_first(fd.f, fd.x, fd.eps))]
    /\ UNCHANGED <<solver, mv>>

\* finite_difference_second(f, x, eps); a zero eps divides by zero in the
\* outer quotient (the inner calls divide by the default step)
CallSecond ==
    /\ fd.pc = "call"
    /\ fd.op = "second"
    /\ fd' = IF fd.eps = Zero
             THEN [fd EXCEPT !.pc = "ZeroDivisionError"]
             ELSE [fd EXCEPT !.pc = "return",
                             !.out = Some(finite_difference_second(fd.f, fd.x, fd.eps))]
    /\ UNCHANGED <<solver, mv>>

NextFD == CallFirst \/ CallSecond

SpecFD == InitFD /\ [][NextFD]_vars

(***************************************************************************)
(* multivariate_newton                                                     *)
(***************************************************************************)
RECURSIVE SumSeq(_)
SumSeq(v) == IF v = <<>> THEN Zero ELSE Add(v[1], SumSeq(Tail(v)))

\* A scalar objective of a vector: q*sum(v_i^2) + l*sum(v_i) + k*(sum(v_i))^2
MVApply(g, v) ==
    LET s == SumSeq(v)
        sq == SumSeq([j \in 1..Len(v) |-> Mul(v[j], v[j])])
    IN  Add(Add(Mul(g.q, sq), Mul(g.l, s)), Mul(g.k, Mul(s, s)))

MVObjectives ==
    { [q |-> Num(1, 1, 0), l |-> Zero, k |-> Zero],
      [q |-> Num(1, 1, 0), l |-> Num(-2, 1, 0), k |-> Zero],
      [q |-> Num(1, 2, 0), l |-> Num(1, 1, 0), k |-> Num(1, 1, 0)] }

MVGuesses ==
    { <<Num(1, 1, 0)>>, <<Zero, Zero>>, <<Num(1, 1, 0), Num(2, 1, 0)>>,
      <<Num(-1, 1, 0), Num(1, 2, 0)>> }

\* a numpy array: its shape and, for one dimension, its entries
NdArray(shape, data) == [shape |-> shape, data |-> data]

\* v + h * e_j
Bump(v, j, h) == [v EXCEPT ![j] = Add(v[j], h)]

\* the forward-difference gradient of the scalar g at v with step h, an
\* array of shape (n,)
ForwardGradient(g, v, h) ==
    NdArray(<<Len(v)>>,
            [j \in 1..Len(v) |-> Div(Sub(MVApply(g, Bump(v, j, h)), MVApply(g, v)), h)])

\* scipy's approx_fprime(xk, f, epsilon): a forward difference with step epsilon
approx_fprime(xk, g, epsilon) == ForwardGradient(g, xk, epsilon)

\* scipy's approx_derivative(fun, x0, method='2-point', abs_step=h): the
\* Jacobian of fun by forward differences; for a scalar fun it is returned
\* as a 1-D array of shape (n,)
approx_derivative(g, v, abs_step) == ForwardGradient(g, v, abs_step)

InitMV ==
    /\ SolverIdle
    /\ fd = Idle
    /\ mv \in [pc : {"start"}, f : MVObjectives, x0 : MVGuesses, tol : {DefaultTol},
               max_iter : 0..MaxIterations, i : {0}, x : {None}, grad : {None},
               hess : {None}, ret : {None}]

\* x = np.array(x0, dtype=float)
MVStart ==
    /\ mv.pc = "start"
    /\ mv' = [mv EXCEPT !.x = Some(mv.x0), !.pc = "loop"]
    /\ UNCHANGED <<solver, fd>>

\* for i in range(max_iter): ...  return x
MVLoopHead ==
    /\ mv.pc = "loop"
    /\ mv' = IF mv.i < mv.max_iter
             THEN [mv EXCEPT !.pc = "grad"]
             ELSE [mv EXCEPT !.pc = "return", !.ret = mv.x]
    /\ UNCHANGED <<solver, fd>>

\* grad = approx_fprime(x, f, epsilon=1e-8)
MVGradient ==
    /\ mv.pc = "grad"
    /\ mv' = [mv EXCEPT !.grad = Some(approx_fprime(mv.x[1], mv.f, GradientStep)),
                        !.pc = "hess"]
    /\ UNCHANGED <<solver, fd>>

\* hess = approx_derivative(f, x, method='2-point', abs_step=1e-5)
MVHessian ==
    /\ mv.pc = "hess"
    /\ mv' = [mv EXCEPT !.hess = Some(approx_derivative(mv.f, mv.x[1], HessianStep)),
                        !.pc = "inv"]
    /\ UNCHANGED <<solver, fd>>

\* delta = np.dot(np.linalg.inv(hess), grad): numpy's inv raises LinAlgError
\* for an array of fewer than two dimensions.  hess always has one, so the
\* lines after this one (121-125) are never reached.
MVInverse ==
    /\ mv.pc = "inv"
    /\ mv' = [mv EXCEPT !.pc = IF Len(mv.hess[1].shape) < 2
                               THEN "LinAlgError" ELSE "delta"]
    /\ UNCHANGED <<solver, fd>>

NextMV ==
    \/ MVStart
    \/ MVLoopHead
    \/ MVGradient
    \/ MVHessian
    \/ MVInverse

SpecMV == InitMV /\ [][NextMV]_vars

(***************************************************************************)
(* Properties                                                              *)
(***************************************************************************)
\* Every number newton_method compares has digits small enough for Sign to
\* be exact (an invariant of Spec).
SignsExact ==
    pc = "converged" =>
        LET step == Abs(Sub(x_t[1].val, x[1].val))
        IN  Proper(step) /\ Proper(Sub(step, tol)) /\ Proper(Sub(step, LargeStep))

\* the arguments the documentation of newton_method asks for
ValidArguments == f.callable /\ x0.type \in {"int", "float"}

\* C1: in the hardened variant the guard on the second derivative raises an
\* AssertionError exactly when the second-derivative estimate is zero, and
\* lets a nonzero estimate through to the update x_t = x - first/second.
C1_GuardRaisesIffZero ==
    variant = "newton" =>
        /\ pc = "AssertionError" => second_derivatives[1] = Zero
        /\ pc = "update" => second_derivatives[1] # Zero

\* the guard has let a zero second derivative through to the division
C1_ZeroPassesGuard ==
    variant = "newton" /\ pc = "ZeroDivisionError" /\ second_derivatives[1] = Zero

\* C2: a call with iteration = 0 and valid arguments evaluates no derivative
\* estimate and ends by returning x0, in both variants.
C2_ZeroBudgetReturnsX0 ==
    (iteration = 0 /\ ValidArguments /\ pc \in Terminal) =>
        (pc = "return" /\ ret = Some(x0) /\ evals = 0)

\* C3: finite_difference_second(f, x, eps) is
\* (finite_difference_first(f, x+eps, eps) - finite_difference_first(f, x, eps)) / eps:
\* the caller's eps is the step of the two inner estimates too.
C3_SecondUsesCallerEps ==
    (fd.pc = "return" /\ fd.op = "second") =>
        fd.out = Some(Div(Sub(finite_difference_first(fd.f, Add(fd.x, fd.eps), fd.eps),
                              finite_difference_first(fd.f, fd.x, fd.eps)), fd.eps))

\* |r - sqrt(c)| < t or |r + sqrt(c)| < t, for c > 0 and t > 0, without the
\* square root: | |r| - sqrt(c) | < t.
NearRoot(r, c, t) ==
    LET m == Abs(r)
    IN  /\ Lt(m, t) \/ Lt(Mul(Sub(m, t), Sub(m, t)), c)
        /\ Lt(c, Mul(Add(m, t), Add(m, t)))

\* C4: for f(x) = x**2 - c with c > 0, the initial guess 1.0 and the default
\* tolerance, the solver ends by returning a value within tol of sqrt(c) or
\* of -sqrt(c).
C4_ConvergesToSquareRoot ==
    (/\ f \in SquareMinusC
     /\ x0 = PyVal("float", Num(1, 1, 0))
     /\ tol = DefaultTol
     /\ iteration = MaxIterations
     /\ pc \in Terminal) =>
        (pc = "return" /\ NearRoot(ret[1].val, Neg(f.a0), tol))

\* Python's numbers among the classes of the model: bool is a subclass of int
NumericTypes == {"int", "float", "bool"}

\* C5: in the hardened variant a call whose f is not callable or whose x0 is
\* not a number ends with TypeError before the loop: nothing is assigned, no
\* estimate is computed, nothing is returned; with a callable f and an int or
\* float x0 no TypeError is raised.
C5_ValidationFailsFast ==
    variant = "newton" =>
        /\ (~f.callable \/ x0.type \notin NumericTypes) =>
              /\ pc \in {"validate", "TypeError"}
              /\ evals = 0
              /\ x = None
              /\ first_derivatives = None
              /\ second_derivatives = None
              /\ ret = None
        /\ ValidArguments => pc # "TypeError"

\* validation has rejected a string x0 passed with a callable f
C5_Witness ==
    variant = "newton" /\ pc = "TypeError" /\ f.callable /\ x0.type = "str"

\* C6: in every variant, a call with iteration >= 1 in which no iteration
\* passes the convergence test ends by returning the x_t of the last
\* iteration, with no error.  (Stated for calls whose second-derivative
\* estimate is nonzero, where the Newton step is defined.)
C6_ExhaustionReturnsLastEstimate ==
    (/\ iteration >= 1
     /\ ValidArguments
     /\ pc \in Terminal
     /\ ~printed
     /\ second_derivatives # Some(Zero)) =>
        (pc = "return" /\ ret = x_t /\ evals = iteration)

\* C7: the number of iterations that evaluate the estimator pair never
\* exceeds the iteration budget, whatever the call's outcome.
C7_EvalsWithinBudget == evals <= iteration

\* a call has used its whole budget of at least two iterations and returned
C7_Witness ==
    pc = "return" /\ ~printed /\ evals = iteration /\ iteration >= 2

\* C8: the iteration whose x_t satisfies |x_t - x| < tol ends the call, which
\* returns that x_t and evaluates no estimate afterwards; an iteration with
\* |x_t - x| >= tol replaces the iterate by x_t and goes on with the loop.
C8_StopsAtFirstConvergence ==
    /\ [](printed => /\ pc = "return"
                     /\ ret = x_t
                     /\ evals = i + 1
                     /\ Lt(Abs(Sub(x_t[1].val, x[1].val)), tol))
    /\ [][/\ pc = "converged" =>
               IF Lt(Abs(Sub(x_t[1].val, x[1].val)), tol)
               THEN pc' = "return" /\ ret' = x_t /\ printed' /\ evals' = evals
               ELSE pc' = "loop" /\ x' = x_t /\ i' = i + 1 /\ ~printed'
          /\ pc = "return" => (evals' = evals /\ ret' = ret /\ pc' = "return")]_vars

\* a call has converged in its second or a later iteration
C8_Witness == pc = "return" /\ printed /\ i >= 1

\* C9: in the hardened variant an iteration whose step first/second exceeds
\* 1e6 in magnitude warns and goes on: it does not end the call with an error.
C9_LargeStepWarnsAndContinues ==
    (/\ variant = "newton"
     /\ pc # "guard"
     /\ second_derivatives # None
     /\ second_derivatives[1] # Zero
     /\ Gt(Abs(Div(first_derivatives[1], second_derivatives[1])), LargeStep)) =>
        (pc \notin Raised /\ warned >= 1)

\* the forward-difference Jacobian (step h) of the gradient approx_fprime
\* computes: the n x n array the multivariate update needs
JacobianOfGradient(g, v, h) ==
    LET n == Len(v)
        e == GradientStep
    IN  NdArray(<<n, n>>,
                [r \in 1..n |-> [c \in 1..n |->
                    Div(Sub(approx_fprime(Bump(v, c, h), g, e).data[r],
                            approx_fprime(v, g, e).data[r]), h)]])

\* C10: in an iteration of the multivariate solver the Hessian approximation
\* is the n x n numerical Jacobian of the gradient of f at x, and the
\* iteration goes on to solve H delta = g (it does not fail on H).
C10_HessianIsJacobianOfGradient ==
    mv.hess # None =>
        /\ mv.hess[1].shape = <<Len(mv.x[1]), Len(mv.x[1])>>
        /\ mv.hess[1].data = JacobianOfGradient(mv.f, mv.x[1], HessianStep).data
        /\ mv.pc # "LinAlgError"

=============================================================================
